---- MODULE Spec2Model ----
(***************************************************************************)
(* Model of the availability search of the Google Calendar MCP server      *)
(* (src/main.py): the tool handlers check_availability and                 *)
(* find_next_available, the other tool handlers (book, cancel, reschedule,  *)
(* get_appointments), the endpoints that dispatch to them, and the         *)
(* calendar gateway they call (service.events()).                          *)
(*                                                                         *)
(* Time is counted in minutes on one line: minute t lies on date           *)
(* t \div 1440 at time of day t % 1440.  Date 0 is a Monday, so that       *)
(* date.weekday() is d % 7.                                                *)
(***************************************************************************)
EXTENDS Integers, Sequences, FiniteSets, TLC

\* ------------------------------------------------------------------ bounds
MaxEvents == 2          \* events on the calendar
MaxDaysAhead == 2       \* largest days_ahead a request carries
MaxBatch == 2           \* tool calls in one tool_calls list

\* ------------------------------------------------------- program constants
DayMinutes == 1440      \* timedelta(days=1)
SlotStep == 30          \* timedelta(minutes=30)
OpenHour == 9           \* range(9, ...)
CloseHour == 17         \* range(..., 17 - duration // 60)
HourMinutes == 60       \* duration // 60
WorkDays == 5           \* current_date.weekday() < 5
SearchFromDays == 1     \* datetime.now() + timedelta(days=1)

\* ------------------------------------------------------------ input domains
Durations == {30, 45, 60, 90}           \* check_availability
FnaDurations == {30, 60, 90, 119, 480}  \* find_next_available
CheckDates == {7}                       \* a Monday
WindowStarts == {540, 555}              \* 09:00, 09:15
WindowEnds == {510, 600, 660}           \* 08:30, 10:00, 11:00
NowDays == {3, 4}                       \* Thursday, Friday
NowTimes == {600, 1080}                 \* 10:00 and 18:00 (after closing)

At(date, minute) == date * DayMinutes + minute

\* What event['start']['dateTime'] holds: a timestamp with "Z" or an offset
\* ("aware"), a timestamp without one ("naive"), or nothing at all because the
\* event is an all-day event carrying only 'date' ("allday").
EventKinds == {"aware", "naive", "allday"}

TimedEvent(d, s, l, k) ==
    [id |-> <<s, l, k>>, start |-> At(d, s), end |-> At(d, s + l), kind |-> k]

EventPool ==
    { TimedEvent(d, s, l, "naive") : d \in CheckDates, s \in {540, 570}, l \in {30, 60} }
    \cup { TimedEvent(d, 570, 60, "aware") : d \in CheckDates }
    \cup { [id |-> <<0, 1440, "allday">>, start |-> At(7, 0), end |-> At(8, 0), kind |-> "allday"],
           [id |-> <<540, 480, "friday">>, start |-> At(4, 540), end |-> At(4, 1020), kind |-> "aware"],
           [id |-> <<0, 0, "fortnight">>, start |-> At(0, 0), end |-> At(14, 0), kind |-> "aware"] }

Calendars == { c \in SUBSET EventPool : Cardinality(c) <= MaxEvents }

VARIABLES
    calendar,     \* the events the calendar service holds
    pc,           \* "idle", or "fna" while find_next_available is scanning
    req,          \* the request being handled, or the last one handled
    current_date, \* find_next_available: the date being examined
    hour,         \* find_next_available: the next candidate hour of current_date
    events,       \* the items of the last successful events().list call
    glog,         \* the gateway calls of the request, in order
    outcome,      \* what the request returned or raised
    ctx           \* the HTTP request around the handler, if any

vars == <<calendar, pc, req, current_date, hour, events, glog, outcome, ctx>>

\* req.fault: "none", or what is wrong with the parameters: "missing" (a
\* required key is absent) or "malformed" (a date or time that strptime
\* rejects).
NoRequest == [tool |-> "none", date |-> 0, start_time |-> 0, end_time |-> 0,
              duration |-> 0, days_ahead |-> 0, now |-> 0,
              appointment_id |-> <<0, 0, "none">>, fault |-> "none"]

\* outcome.kind: "none" (nothing returned yet), "text" (the handler returned
\* its text), "error" (the handler raised HTTPException 500).
NoOutcome == [kind |-> "none", found |-> FALSE, slots |-> <<>>, count |-> 0,
              date |-> 0, time |-> <<0, 0>>, weekday |-> 0, detail |-> "none"]

\* The request body as the endpoints read it: whether it has the "jsonrpc"
\* key, its "method" ("" when absent), params.name, whether it has the
\* "tool_calls" key and how many tool calls that list holds.
Request(jsonrpc, method, name, has_tool_calls, n) ==
    [jsonrpc |-> jsonrpc, method |-> method, name |-> name,
     has_tool_calls |-> has_tool_calls, n |-> n]

\* The empty body {}.
EmptyRequest == Request(FALSE, "", "", FALSE, 0)

\* ctx.endpoint: "none" when the handler is called by itself, else "root"
\* (POST /), "tools" (POST /tools) or "webhook" (POST /elevenlabs/webhook).
\* ctx.phase: "mcp" while the handler of a JSON-RPC tool call runs, "batch"
\* while the loop over tool_calls runs, "done" when the response is returned.
\* ctx.calls: the tool calls the loop has taken so far; ctx.results: the
\* results list. ctx.response: "info", "result", "error" (JSON-RPC error),
\* "results" or "http_error".
\* ctx.service: what get_calendar_service() gave the endpoint.
NoContext == [endpoint |-> "none", phase |-> "none", request |-> EmptyRequest,
              service |-> TRUE, calls |-> <<>>, results |-> <<>>,
              response |-> "none", detail |-> "none"]

\* ------------------------------------------------------------------ gateway
\* service.events().list(timeMin, timeMax): the events that end after timeMin
\* and start before timeMax.
InRange(cal, timeMin, timeMax) ==
    { e \in cal : e.end > timeMin /\ e.start < timeMax }

\* orderBy='startTime': every arrangement of the events by ascending start
\* (the service fixes no order among events that start together).
OrderByStartTime(S) ==
    { f \in [1..Cardinality(S) -> S] :
          /\ \A i, j \in 1..Cardinality(S) : i # j => f[i] # f[j]
          /\ \A i, j \in 1..Cardinality(S) : i < j => f[i].start <= f[j].start }

\* One events().list call as the log keeps it: its range, whether it raised, and
\* how many items it returned.
ListCall(timeMin, timeMax, raised, items) ==
    [op |-> "list", timeMin |-> timeMin, timeMax |-> timeMax,
     raised |-> raised, items |-> items]

\* ------------------------------------------------------- check_availability
\* strftime("%H:%M")
StrfTime(t) == <<(t % DayMinutes) \div 60, t % 60>>

\* The for-loop over events of one candidate slot: "free", "busy", or the
\* exception the loop body raises.  A naive current_time cannot be compared
\* with an aware event_end (TypeError); an all-day event has no 'dateTime'.
RECURSIVE is_available(_, _, _, _)

\* is_available testing only whether the slot's start lies inside the event.
is_available_start_only(current_time, slot_end, evs, i) ==
    IF i > Len(evs) THEN "free"
    ELSE IF evs[i].kind = "allday" THEN "KeyError"
    ELSE IF evs[i].kind = "aware" THEN "TypeError"
    ELSE IF current_time < evs[i].end /\ current_time >= evs[i].start THEN "busy"
    ELSE is_available(current_time, slot_end, evs, i + 1)

is_available(current_time, slot_end, evs, i) ==
    IF i > Len(evs) THEN "free"
    ELSE IF evs[i].kind = "allday" THEN "KeyError"
    ELSE IF evs[i].kind = "aware" THEN "TypeError"
    ELSE IF current_time < evs[i].end /\ slot_end > evs[i].start THEN "busy"
    ELSE is_available(current_time, slot_end, evs, i + 1)

\* SlotFits forgetting the duration.
SlotFits_start_only(current_time, duration, end_datetime) ==
    current_time <= end_datetime

\* while current_time + timedelta(minutes=duration) <= end_datetime
SlotFits(current_time, duration, end_datetime) ==
    current_time + duration <= end_datetime

\* NextSlot stepping by the hour.
NextSlot_hourly(current_time) == current_time + HourMinutes

\* current_time += timedelta(minutes=30)
NextSlot(current_time) == current_time + SlotStep

\* The while-loop: the accepted slots, or the exception that ended it.
RECURSIVE available_slots(_, _, _, _)
available_slots(current_time, end_datetime, duration, evs) ==
    IF ~SlotFits(current_time, duration, end_datetime)
    THEN [err |-> "none", slots |-> <<>>]
    ELSE LET a == is_available(current_time, current_time + duration, evs, 1)
             rest == available_slots(NextSlot(current_time), end_datetime, duration, evs)
         IN  IF a \in {"KeyError", "TypeError"} THEN [err |-> a, slots |-> <<>>]
             ELSE IF rest.err # "none" THEN rest
             ELSE IF a = "free" THEN [err |-> "none", slots |-> <<current_time>> \o rest.slots]
             ELSE rest

SlotTimes(slots) == [i \in 1..Len(slots) |-> StrfTime(slots[i])]

CheckRequest(date, start_time, end_time, duration) ==
    [NoRequest EXCEPT !.tool = "check_availability", !.date = date,
                      !.start_time = start_time, !.end_time = end_time,
                      !.duration = duration]

\* check_availability answering from the items an earlier request left behind.
check_availability_stale(date, start_time, end_time, duration) ==
    LET start_datetime == At(date, start_time)
        end_datetime == At(date, end_time)
        r == available_slots(start_datetime, end_datetime, duration, events)
    IN  /\ pc = "idle"
        /\ req' = CheckRequest(date, start_time, end_time, duration)
        /\ glog' = <<ListCall(start_datetime, end_datetime, FALSE, Len(events))>>
        /\ events' = events
        /\ outcome' = IF r.err = "none"
                      THEN [NoOutcome EXCEPT !.kind = "text", !.slots = SlotTimes(r.slots),
                                             !.count = Len(r.slots), !.date = date]
                      ELSE [NoOutcome EXCEPT !.kind = "error", !.detail = r.err]
        /\ UNCHANGED <<calendar, pc, current_date, hour>>

\* check_availability whose events().list call succeeds.
check_availability(date, start_time, end_time, duration) ==
    \E items \in OrderByStartTime(InRange(calendar, At(date, start_time), At(date, end_time))) :
    LET start_datetime == At(date, start_time)
        end_datetime == At(date, end_time)
        r == available_slots(start_datetime, end_datetime, duration, items)
    IN  /\ pc = "idle"
        /\ req' = CheckRequest(date, start_time, end_time, duration)
        /\ glog' = <<ListCall(start_datetime, end_datetime, FALSE, Len(items))>>
        /\ events' = items
        /\ outcome' = IF r.err = "none"
                      THEN [NoOutcome EXCEPT !.kind = "text", !.slots = SlotTimes(r.slots),
                                             !.count = Len(r.slots), !.date = date]
                      ELSE [NoOutcome EXCEPT !.kind = "error", !.detail = r.err]
        /\ UNCHANGED <<calendar, pc, current_date, hour>>

\* check_availability whose events().list call raises.
check_availability_fail(date, start_time, end_time, duration) ==
    /\ pc = "idle"
    /\ req' = CheckRequest(date, start_time, end_time, duration)
    /\ glog' = <<ListCall(At(date, start_time), At(date, end_time), TRUE, 0)>>
    /\ events' = <<>>
    /\ outcome' = [NoOutcome EXCEPT !.kind = "error", !.detail = "gateway"]
    /\ UNCHANGED <<calendar, pc, current_date, hour>>

\* ------------------------------------------------------ find_next_available
DateOf(t) == t \div DayMinutes

\* search_start without the day added.
search_start_today(now) == now

\* search_start = datetime.now() + timedelta(days=1)
search_start(now) == now + SearchFromDays * DayMinutes

\* search_end one day late.
search_end_late(now, days_ahead) == search_start(now) + (days_ahead + 1) * DayMinutes

\* search_end = search_start + timedelta(days=days_ahead)
search_end(now, days_ahead) == search_start(now) + days_ahead * DayMinutes

end_date(r) == DateOf(search_end(r.now, r.days_ahead))

\* date.weekday(): Monday = 0 ... Sunday = 6
Weekday(date) == date % 7

\* IsBusinessDay counting Saturday in.
IsBusinessDay_saturday(date) == Weekday(date) < WorkDays + 1

\* current_date.weekday() < 5
IsBusinessDay(date) == Weekday(date) < WorkDays

\* HourLimit forgetting the duration: every hour up to closing.
HourLimit_closing(duration) == CloseHour

\* range(9, 17 - (duration // 60)) stops before this hour
HourLimit(duration) == CloseHour - (duration \div HourMinutes)

\* datetime.combine(current_date, time(hour))
check_datetime(date, h) == At(date, h * HourMinutes)

FnaRequest(duration, days_ahead, now) ==
    [NoRequest EXCEPT !.tool = "find_next_available", !.duration = duration,
                      !.days_ahead = days_ahead, !.now = now]

\* Entry of find_next_available up to the head of the while-loop.
fna_start(duration, days_ahead, now) ==
    /\ pc = "idle"
    /\ pc' = "fna"
    /\ req' = FnaRequest(duration, days_ahead, now)
    /\ current_date' = DateOf(search_start(now))
    /\ hour' = OpenHour
    /\ events' = <<>>
    /\ glog' = <<>>
    /\ outcome' = NoOutcome
    /\ UNCHANGED calendar

Scanning == pc = "fna" /\ current_date <= end_date(req)

AtCandidate == Scanning /\ IsBusinessDay(current_date) /\ hour < HourLimit(req.duration)

\* A weekend date: the if-body is skipped, current_date += 1 day.
fna_skip_weekend ==
    /\ Scanning
    /\ ~IsBusinessDay(current_date)
    /\ current_date' = current_date + 1
    /\ hour' = OpenHour
    /\ UNCHANGED <<calendar, pc, req, events, glog, outcome>>

\* The for-loop over the hours of a business day is exhausted.
fna_day_done ==
    /\ Scanning
    /\ IsBusinessDay(current_date)
    /\ ~(hour < HourLimit(req.duration))
    /\ current_date' = current_date + 1
    /\ hour' = OpenHour
    /\ UNCHANGED <<calendar, pc, req, events, glog, outcome>>

SlotItems(date, h, duration) ==
    InRange(calendar, check_datetime(date, h), check_datetime(date, h) + duration)

SlotCall(date, h, duration, raised) ==
    ListCall(check_datetime(date, h), check_datetime(date, h) + duration, raised,
             IF raised THEN 0 ELSE Cardinality(SlotItems(date, h, duration)))

\* events().list returned events for the candidate: next hour.
fna_query_busy ==
    /\ AtCandidate
    /\ SlotItems(current_date, hour, req.duration) # {}
    /\ glog' = Append(glog, SlotCall(current_date, hour, req.duration, FALSE))
    /\ hour' = hour + 1
    /\ UNCHANGED <<calendar, pc, req, current_date, events, outcome>>

\* fna_query_free returning the candidate whatever the call returned.
fna_query_free_any ==
    /\ AtCandidate
    /\ glog' = Append(glog, SlotCall(current_date, hour, req.duration, FALSE))
    /\ outcome' = [NoOutcome EXCEPT !.kind = "text", !.found = TRUE,
                                    !.date = current_date,
                                    !.time = StrfTime(check_datetime(current_date, hour)),
                                    !.weekday = Weekday(current_date)]
    /\ pc' = "idle"
    /\ UNCHANGED <<calendar, req, current_date, hour, events>>

\* events().list returned no events: the candidate is returned.
fna_query_free ==
    /\ AtCandidate
    /\ SlotItems(current_date, hour, req.duration) = {}
    /\ glog' = Append(glog, SlotCall(current_date, hour, req.duration, FALSE))
    /\ outcome' = [NoOutcome EXCEPT !.kind = "text", !.found = TRUE,
                                    !.date = current_date,
                                    !.time = StrfTime(check_datetime(current_date, hour)),
                                    !.weekday = Weekday(current_date)]
    /\ pc' = "idle"
    /\ UNCHANGED <<calendar, req, current_date, hour, events>>

\* fna_query_fail swallowing the exception and going on to the next hour.
fna_query_fail_swallowed ==
    /\ AtCandidate
    /\ glog' = Append(glog, SlotCall(current_date, hour, req.duration, TRUE))
    /\ hour' = hour + 1
    /\ UNCHANGED <<calendar, pc, req, current_date, events, outcome>>

\* events().list raised: the except clause turns it into HTTPException 500.
fna_query_fail ==
    /\ AtCandidate
    /\ glog' = Append(glog, SlotCall(current_date, hour, req.duration, TRUE))
    /\ outcome' = [NoOutcome EXCEPT !.kind = "error", !.detail = "gateway"]
    /\ pc' = "idle"
    /\ UNCHANGED <<calendar, req, current_date, hour, events>>

\* The while-loop ended without a return.
fna_not_found ==
    /\ pc = "fna"
    /\ ~(current_date <= end_date(req))
    /\ outcome' = [NoOutcome EXCEPT !.kind = "text", !.found = FALSE]
    /\ pc' = "idle"
    /\ UNCHANGED <<calendar, req, current_date, hour, events, glog>>

\* ------------------------------------------------- the mutating gateway calls
\* One events().insert / get / delete / update call as the log keeps it.
GatewayCall(op, id, raised) == [op |-> op, id |-> id, raised |-> raised]

Ids(cal) == { e.id : e \in cal }

EventById(cal, id) == CHOOSE e \in cal : e.id = id

UnknownId == <<0, 0, "unknown">>

\* The id the service gives to an inserted event: one no event has.
FreshId(cal) ==
    LET n == CHOOSE k \in 1..(Cardinality(cal) + 1) :
                 /\ <<k, 0, "booked">> \notin Ids(cal)
                 /\ \A j \in 1..(k - 1) : <<j, 0, "booked">> \in Ids(cal)
    IN  <<n, 0, "booked">>

Faults == {"none", "missing", "malformed"}

\* params[...] of an absent key raises KeyError, strptime of a malformed
\* string ValueError.
FaultError(fault) == IF fault = "missing" THEN "KeyError" ELSE "ValueError"

Failed(detail) == [NoOutcome EXCEPT !.kind = "error", !.detail = detail]

\* ----------------------------------------------------------- book_appointment
BookRequest(date, time, duration, fault) ==
    [NoRequest EXCEPT !.tool = "book_appointment", !.date = date,
                      !.start_time = time, !.duration = duration, !.fault = fault]

\* The parameters are read and parsed, then the event is inserted; raised
\* tells whether events().insert raises.
book_appointment(date, time, duration, fault, raised) ==
    LET start_datetime == At(date, time)
        end_datetime == start_datetime + duration
        event == [id |-> FreshId(calendar), start |-> start_datetime,
                  end |-> end_datetime, kind |-> "aware"]
    IN  /\ pc = "idle"
        /\ req' = BookRequest(date, time, duration, fault)
        /\ events' = <<>>
        /\ IF fault # "none"
           THEN /\ ~raised
                /\ glog' = <<>>
                /\ outcome' = Failed(FaultError(fault))
                /\ calendar' = calendar
           ELSE IF raised
           THEN /\ glog' = <<GatewayCall("insert", event.id, TRUE)>>
                /\ outcome' = Failed("gateway")
                /\ calendar' = calendar
           ELSE /\ Cardinality(calendar) < MaxEvents
                /\ glog' = <<GatewayCall("insert", event.id, FALSE)>>
                /\ outcome' = [NoOutcome EXCEPT !.kind = "text", !.date = date,
                                                !.time = StrfTime(start_datetime)]
                /\ calendar' = calendar \cup {event}
        /\ UNCHANGED <<pc, current_date, hour>>

\* --------------------------------------------------------- cancel_appointment
CancelRequest(appointment_id, fault) ==
    [NoRequest EXCEPT !.tool = "cancel_appointment",
                      !.appointment_id = appointment_id, !.fault = fault]

\* cancel_appointment deleting without fetching the event first.
cancel_appointment_blind(appointment_id, fault, raised) ==
    /\ pc = "idle"
    /\ req' = CancelRequest(appointment_id, fault)
    /\ events' = <<>>
    /\ IF fault # "none"
       THEN /\ raised = "none"
            /\ glog' = <<>>
            /\ outcome' = Failed(FaultError(fault))
            /\ calendar' = calendar
       ELSE IF appointment_id \notin Ids(calendar) \/ raised # "none"
       THEN /\ glog' = <<GatewayCall("delete", appointment_id, TRUE)>>
            /\ outcome' = Failed("gateway")
            /\ calendar' = calendar
       ELSE /\ glog' = <<GatewayCall("delete", appointment_id, FALSE)>>
            /\ outcome' = [NoOutcome EXCEPT !.kind = "text"]
            /\ calendar' = calendar \ {EventById(calendar, appointment_id)}
    /\ UNCHANGED <<pc, current_date, hour>>

\* events().get, then events().delete; raised names the call that raises
\* for a reason of the service's ("none", "get", "delete").  events().get
\* raises by itself when no event has the id.
cancel_appointment(appointment_id, fault, raised) ==
    /\ pc = "idle"
    /\ req' = CancelRequest(appointment_id, fault)
    /\ events' = <<>>
    /\ IF fault # "none"
       THEN /\ raised = "none"
            /\ glog' = <<>>
            /\ outcome' = Failed(FaultError(fault))
            /\ calendar' = calendar
       ELSE IF appointment_id \notin Ids(calendar) \/ raised = "get"
       THEN /\ raised # "delete"
            /\ glog' = <<GatewayCall("get", appointment_id, TRUE)>>
            /\ outcome' = Failed(IF raised = "get" THEN "gateway" ELSE "NotFound")
            /\ calendar' = calendar
       ELSE IF raised = "delete"
       THEN /\ glog' = <<GatewayCall("get", appointment_id, FALSE),
                         GatewayCall("delete", appointment_id, TRUE)>>
            /\ outcome' = Failed("gateway")
            /\ calendar' = calendar
       ELSE /\ glog' = <<GatewayCall("get", appointment_id, FALSE),
                         GatewayCall("delete", appointment_id, FALSE)>>
            /\ outcome' = [NoOutcome EXCEPT !.kind = "text"]
            /\ calendar' = calendar \ {EventById(calendar, appointment_id)}
    /\ UNCHANGED <<pc, current_date, hour>>

\* ----------------------------------------------------- reschedule_appointment
RescheduleRequest(appointment_id, new_date, new_time, duration, fault) ==
    [NoRequest EXCEPT !.tool = "reschedule_appointment",
                      !.appointment_id = appointment_id, !.date = new_date,
                      !.start_time = new_time, !.duration = duration, !.fault = fault]

\* The keys are read, the event is fetched with events().get, only then
\* new_date and new_time are parsed, and the event is written back with
\* events().update; raised is "none", "get" or "update".
reschedule_appointment(appointment_id, new_date, new_time, duration, fault, raised) ==
    LET start_datetime == At(new_date, new_time)
        end_datetime == start_datetime + duration
    IN  /\ pc = "idle"
        /\ req' = RescheduleRequest(appointment_id, new_date, new_time, duration, fault)
        /\ events' = <<>>
        /\ IF fault = "missing"
           THEN /\ raised = "none"
                /\ glog' = <<>>
                /\ outcome' = Failed("KeyError")
                /\ calendar' = calendar
           ELSE IF appointment_id \notin Ids(calendar) \/ raised = "get"
           THEN /\ raised # "update"
                /\ glog' = <<GatewayCall("get", appointment_id, TRUE)>>
                /\ outcome' = Failed(IF raised = "get" THEN "gateway" ELSE "NotFound")
                /\ calendar' = calendar
           ELSE IF fault = "malformed"
           THEN /\ raised = "none"
                /\ glog' = <<GatewayCall("get", appointment_id, FALSE)>>
                /\ outcome' = Failed("ValueError")
                /\ calendar' = calendar
           ELSE IF raised = "update"
           THEN /\ glog' = <<GatewayCall("get", appointment_id, FALSE),
                             GatewayCall("update", appointment_id, TRUE)>>
                /\ outcome' = Failed("gateway")
                /\ calendar' = calendar
           ELSE /\ glog' = <<GatewayCall("get", appointment_id, FALSE),
                             GatewayCall("update", appointment_id, FALSE)>>
                /\ outcome' = [NoOutcome EXCEPT !.kind = "text", !.date = new_date,
                                                !.time = StrfTime(start_datetime)]
                /\ calendar' = (calendar \ {EventById(calendar, appointment_id)})
                                  \cup {[EventById(calendar, appointment_id) EXCEPT
                                             !.start = start_datetime,
                                             !.end = end_datetime,
                                             !.kind = "aware"]}
        /\ UNCHANGED <<pc, current_date, hour>>

\* ----------------------------------------------------------- get_appointments
AppointmentsRequest(from_date, to_date, fault) ==
    [NoRequest EXCEPT !.tool = "get_appointments", !.date = from_date,
                      !.days_ahead = to_date - from_date, !.fault = fault]

\* start_date and end_date are parsed, the events from start_date 00:00 to
\* the end of end_date are listed, and each event's start 'dateTime' is formatted (an
\* all-day event has none: KeyError).
get_appointments(from_date, to_date, fault, raised) ==
    \E items \in OrderByStartTime(InRange(calendar, At(from_date, 0), At(to_date + 1, 0))) :
        /\ pc = "idle"
        /\ req' = AppointmentsRequest(from_date, to_date, fault)
        /\ IF fault # "none"
           THEN /\ ~raised
                /\ glog' = <<>>
                /\ events' = <<>>
                /\ outcome' = Failed(FaultError(fault))
           ELSE IF raised
           THEN /\ glog' = <<ListCall(At(from_date, 0), At(to_date + 1, 0), TRUE, 0)>>
                /\ events' = <<>>
                /\ outcome' = Failed("gateway")
           ELSE /\ glog' = <<ListCall(At(from_date, 0), At(to_date + 1, 0), FALSE, Len(items))>>
                /\ events' = items
                /\ outcome' = IF \E i \in 1..Len(items) : items[i].kind = "allday"
                              THEN Failed("KeyError")
                              ELSE [NoOutcome EXCEPT !.kind = "text", !.count = Len(items),
                                                     !.found = Len(items) > 0]
        /\ UNCHANGED <<calendar, pc, current_date, hour>>

\* check_availability with a required key absent or a date or time that
\* strptime rejects: the exception comes before the events().list call.
check_availability_invalid(fault) ==
    /\ pc = "idle"
    /\ fault # "none"
    /\ req' = [NoRequest EXCEPT !.tool = "check_availability", !.fault = fault]
    /\ glog' = <<>>
    /\ events' = <<>>
    /\ outcome' = Failed(FaultError(fault))
    /\ UNCHANGED <<calendar, pc, current_date, hour>>

Init ==
    /\ calendar \in Calendars
    /\ pc = "idle"
    /\ req = NoRequest
    /\ current_date = 0
    /\ hour = 0
    /\ events = <<>>
    /\ glog = <<>>
    /\ outcome = NoOutcome
    /\ ctx = NoContext

\* A handler called by itself, outside any endpoint.
Direct == ctx.endpoint = "none" /\ UNCHANGED ctx

CheckNext ==
    \/ \E date \in CheckDates, s \in WindowStarts, e \in WindowEnds, d \in Durations :
           check_availability(date, s, e, d) /\ Direct
    \/ \E date \in CheckDates, s \in WindowStarts, e \in WindowEnds, d \in Durations :
           check_availability_fail(date, s, e, d) /\ Direct

FnaNext ==
    \/ \E d \in FnaDurations, a \in 0..MaxDaysAhead, day \in NowDays, t \in NowTimes :
           fna_start(d, a, At(day, t)) /\ Direct
    \/ fna_skip_weekend /\ Direct
    \/ fna_day_done /\ Direct
    \/ fna_query_busy /\ Direct
    \/ fna_query_free /\ Direct
    \/ fna_query_fail /\ Direct
    \/ fna_not_found /\ Direct

\* The inputs of the requests that change the calendar, and the calendars
\* they start from.
BookTimes == {540}                      \* 09:00
RescheduleTimes == {600}                \* 10:00
BookDurations == {60}

ToolsPool ==
    { e \in EventPool : e.id \in { <<540, 60, "naive">>, <<0, 1440, "allday">> } }

ToolsInit == Init /\ calendar \subseteq ToolsPool

ToolsNext ==
    \/ \E date \in CheckDates, d \in {60} : check_availability(date, 540, 660, d) /\ Direct
    \/ \E date \in CheckDates, d \in {60} : check_availability_fail(date, 540, 660, d) /\ Direct
    \/ \E f \in Faults : check_availability_invalid(f) /\ Direct
    \/ \E a \in {0, 2} : fna_start(60, a, At(4, 600)) /\ Direct
    \/ fna_skip_weekend /\ Direct
    \/ fna_day_done /\ Direct
    \/ fna_query_busy /\ Direct
    \/ fna_query_free /\ Direct
    \/ fna_query_fail /\ Direct
    \/ fna_not_found /\ Direct
    \/ \E date \in CheckDates, t \in BookTimes, d \in BookDurations, f \in Faults, r \in BOOLEAN :
           book_appointment(date, t, d, f, r) /\ Direct
    \/ \E id \in Ids(calendar) \cup {UnknownId}, f \in Faults, r \in {"none", "get", "delete"} :
           cancel_appointment(id, f, r) /\ Direct
    \/ \E id \in Ids(calendar) \cup {UnknownId}, date \in CheckDates, t \in RescheduleTimes,
          d \in BookDurations, f \in Faults, r \in {"none", "get", "update"} :
           reschedule_appointment(id, date, t, d, f, r) /\ Direct
    \/ \E sd \in {4, 7}, ed \in {7}, f \in Faults, r \in BOOLEAN :
           get_appointments(sd, ed, f, r) /\ Direct

\* check_availability requests only.
SpecCheck == Init /\ [][CheckNext]_vars

\* find_next_available requests only.
SpecFna == Init /\ [][FnaNext]_vars

\* Handler calls of all six tools on a calendar that changes.
SpecTools == ToolsInit /\ [][ToolsNext]_vars

\* ------------------------------------------------------------- the endpoints
hvars == <<calendar, pc, req, current_date, hour, events, glog, outcome>>

ToolNames == {"check_availability", "book_appointment", "cancel_appointment",
              "reschedule_appointment", "get_appointments", "find_next_available"}

\* The if/elif chain over tool_name: the call of the handler of that name.
Handle(tool_name) ==
    \/ /\ tool_name = "check_availability"
       /\ \E date \in CheckDates :
             \/ check_availability(date, 540, 660, 60)
             \/ check_availability_fail(date, 540, 660, 60)
             \/ check_availability_invalid("missing")
    \/ /\ tool_name = "book_appointment"
       /\ \E date \in CheckDates, t \in BookTimes, d \in BookDurations,
             f \in {"none", "missing"}, r \in BOOLEAN :
             book_appointment(date, t, d, f, r)
    \/ /\ tool_name = "cancel_appointment"
       /\ \E id \in Ids(calendar) \cup {UnknownId} :
             cancel_appointment(id, "none", "none")
    \/ /\ tool_name = "reschedule_appointment"
       /\ \E id \in Ids(calendar) \cup {UnknownId}, date \in CheckDates,
             t \in RescheduleTimes, d \in BookDurations, f \in {"none", "malformed"} :
             reschedule_appointment(id, date, t, d, f, "none")
    \/ /\ tool_name = "get_appointments"
       /\ \E r \in BOOLEAN : get_appointments(7, 7, "none", r)
    \/ /\ tool_name = "find_next_available"
       /\ fna_start(60, 2, At(4, 600))

\* find_next_available going on inside an endpoint.
FnaStep ==
    \/ fna_skip_weekend
    \/ fna_day_done
    \/ fna_query_busy
    \/ fna_query_free
    \/ fna_query_fail
    \/ fna_not_found

\* call_tool, MCP format: the handler's text goes into "result"; an
\* HTTPException of the handler is caught by the outer except and answered
\* with a JSON-RPC error.
McpReturn(c, p, o) ==
    IF p # "idle"
    THEN [c EXCEPT !.phase = "mcp"]
    ELSE [c EXCEPT !.phase = "done",
                   !.response = IF o.kind = "error" THEN "error" ELSE "result",
                   !.detail = IF o.kind = "error" THEN o.detail ELSE "text"]

\* results.append({"tool_call_id": ..., "result": result})
ResultEntry(id, text) == [tool_call_id |-> id, result |-> text]

\* results.append({"tool_call_id": ..., "error": str(e)})
ErrorEntry(id, text) == [tool_call_id |-> id, error |-> text]

\* The inner try/except of the loop: the handler's text or its exception is
\* appended for the tool call taken last.
ToolCallReturn(c, p, o) ==
    IF p # "idle"
    THEN c
    ELSE [c EXCEPT !.results =
             Append(@, IF o.kind = "error"
                       THEN ErrorEntry(Len(c.calls), o.detail)
                       ELSE ResultEntry(Len(c.calls), "text"))]

Answer(c, response, detail) ==
    [c EXCEPT !.phase = "done", !.response = response, !.detail = detail]

\* call_tool(request); available: get_calendar_service() returned a service.
call_tool(request, endpoint, available) ==
    LET c == [NoContext EXCEPT !.endpoint = endpoint, !.request = request,
                               !.service = available]
    IN  /\ pc = "idle"
        /\ ctx.phase \in {"none", "done"}
        /\ IF ~available
           THEN /\ ctx' = Answer(c, "error", "Google Calendar service not available")
                /\ UNCHANGED hvars
           ELSE IF request.jsonrpc /\ request.method # ""
           THEN IF request.method \in ToolNames
                THEN /\ Handle(request.method)
                     /\ ctx' = McpReturn(c, pc', outcome')
                ELSE /\ ctx' = Answer(c, "error", "Unknown tool")
                     /\ UNCHANGED hvars
           ELSE IF request.has_tool_calls
           THEN /\ ctx' = [c EXCEPT !.phase = "batch"]
                /\ UNCHANGED hvars
           ELSE /\ ctx' = Answer(c, "error", "Invalid request format")
                /\ UNCHANGED hvars

\* root_post(request): only method "tools/call" goes on to call_tool.
root_post(request, available) ==
    IF request # EmptyRequest /\ request.method = "tools/call"
    THEN call_tool(request, "root", available)
    ELSE /\ pc = "idle"
         /\ ctx.phase \in {"none", "done"}
         /\ available
         /\ ctx' = Answer([NoContext EXCEPT !.endpoint = "root", !.request = request],
                          "info", "none")
         /\ UNCHANGED hvars

\* elevenlabs_webhook(request) up to its loop.
elevenlabs_webhook(request) ==
    LET c == [NoContext EXCEPT !.endpoint = "webhook", !.request = request]
    IN  /\ pc = "idle"
        /\ ctx.phase \in {"none", "done"}
        /\ ctx' = IF request.has_tool_calls
                  THEN [c EXCEPT !.phase = "batch"]
                  ELSE Answer(c, "http_error", "No tool_calls in request")
        /\ UNCHANGED hvars

\* The loop left at the first handler that raises.
tool_call_abort(tool_name, available) ==
    LET id == Len(ctx.calls) + 1
        c == [ctx EXCEPT !.calls = Append(@, [id |-> id, name |-> tool_name,
                                             service |-> available])]
    IN  /\ ctx.phase = "batch"
        /\ pc = "idle"
        /\ Len(ctx.calls) < ctx.request.n
        /\ (ctx.endpoint # "webhook" \/ tool_name = "") => available
        /\ IF tool_name = ""
           THEN /\ ctx' = c
                /\ UNCHANGED hvars
           ELSE IF ~available
           THEN /\ ctx' = Answer(c, "results", "none")
                /\ UNCHANGED hvars
           ELSE IF tool_name \notin ToolNames
           THEN /\ ctx' = [c EXCEPT !.results = Append(@, ResultEntry(id, "Unknown tool"))]
                /\ UNCHANGED hvars
           ELSE /\ Handle(tool_name)
                /\ ctx' = IF outcome'.kind = "error"
                          THEN Answer(c, "results", "none")
                          ELSE ToolCallReturn(c, pc', outcome')

\* One pass of "for tool_call in tool_calls" of call_tool and of
\* elevenlabs_webhook. tool_name "" is a tool call without function.name.
\* elevenlabs_webhook fetches the service in every pass; call_tool has it
\* from before the loop.
tool_call(tool_name, available) ==
    LET id == Len(ctx.calls) + 1
        c == [ctx EXCEPT !.calls = Append(@, [id |-> id, name |-> tool_name,
                                             service |-> available])]
    IN  /\ ctx.phase = "batch"
        /\ pc = "idle"
        /\ Len(ctx.calls) < ctx.request.n
        /\ (ctx.endpoint # "webhook" \/ tool_name = "") => available
        /\ IF tool_name = ""
           THEN /\ ctx' = c
                /\ UNCHANGED hvars
           ELSE IF ~available
           THEN /\ ctx' = [c EXCEPT !.results =
                              Append(@, ErrorEntry(id, "Google Calendar service not available"))]
                /\ UNCHANGED hvars
           ELSE IF tool_name \notin ToolNames
           THEN /\ ctx' = [c EXCEPT !.results = Append(@, ResultEntry(id, "Unknown tool"))]
                /\ UNCHANGED hvars
           ELSE /\ Handle(tool_name)
                /\ ctx' = ToolCallReturn(c, pc', outcome')

\* find_next_available scanning on inside call_tool or elevenlabs_webhook.
handler_step ==
    /\ ctx.phase \in {"mcp", "batch"}
    /\ FnaStep
    /\ ctx' = IF ctx.phase = "mcp"
              THEN McpReturn(ctx, pc', outcome')
              ELSE ToolCallReturn(ctx, pc', outcome')

\* return {"results": results}
batch_return ==
    /\ ctx.phase = "batch"
    /\ pc = "idle"
    /\ Len(ctx.calls) = ctx.request.n
    /\ ctx' = Answer(ctx, "results", "none")
    /\ UNCHANGED hvars

NamedTools == {"book_appointment", "find_next_available"}

\* JSON-RPC bodies and bodies that are neither JSON-RPC nor a batch.
RootRequests ==
    {EmptyRequest}
    \cup { Request(TRUE, m, "", FALSE, 0) : m \in {"initialize", "tools/list", "ping"} }
    \cup { Request(TRUE, "tools/call", name, FALSE, 0) : name \in NamedTools }

ToolsRequests ==
    { Request(TRUE, m, "", FALSE, 0) : m \in ToolNames \cup {"tools/call"} }
    \cup { Request(FALSE, "", "", FALSE, 0) }

\* Bodies with a tool_calls list.
BatchRequests == { Request(FALSE, "", "", TRUE, n) : n \in 0..MaxBatch }

RootBatchRequests == { Request(FALSE, "tools/call", "", TRUE, n) : n \in 1..MaxBatch }

WebhookRequests == BatchRequests \cup { Request(FALSE, "", "", FALSE, 0) }

CallNames == {"book_appointment", "cancel_appointment", "", "send_email"}

ServerPool == { e \in EventPool : e.id = <<540, 60, "naive">> }

ServerInit == Init /\ calendar \subseteq ServerPool

McpNext ==
    \/ \E request \in RootRequests, available \in BOOLEAN : root_post(request, available)
    \/ \E request \in ToolsRequests, available \in BOOLEAN :
          call_tool(request, "tools", available)
    \/ handler_step

BatchNext ==
    \/ \E request \in RootBatchRequests, available \in BOOLEAN : root_post(request, available)
    \/ \E request \in BatchRequests, available \in BOOLEAN :
          call_tool(request, "tools", available)
    \/ \E request \in WebhookRequests : elevenlabs_webhook(request)
    \/ \E tool_name \in CallNames, available \in BOOLEAN : tool_call(tool_name, available)
    \/ batch_return

\* JSON-RPC requests to POST / and POST /tools.
SpecMcp == ServerInit /\ [][McpNext]_vars

\* tool_calls requests to POST /, POST /tools and POST /elevenlabs/webhook.
SpecBatch == ServerInit /\ [][BatchNext]_vars

Next ==
    \/ CheckNext
    \/ FnaNext
    \/ ToolsNext
    \/ McpNext
    \/ BatchNext

\* Handler calls and requests to the endpoints, in any order.
Spec == Init /\ [][Next]_vars

\* ======================================================================
\* Properties of check_availability
\* ======================================================================
CheckReturned ==
    /\ req.tool = "check_availability"
    /\ Len(glog) = 1
    /\ ~glog[1].raised

WindowStart == At(req.date, req.start_time)
WindowEnd == At(req.date, req.end_time)

\* The candidate steps of the request's window: window.start + k * 30 minutes
\* with the whole slot inside the window.
Steps ==
    { s \in { WindowStart + k * SlotStep : k \in 0..((WindowEnd - WindowStart) \div SlotStep) } :
          s + req.duration <= WindowEnd }

Overlaps(s, e) == s < e.end /\ s + req.duration > e.start

Returned == { events[i] : i \in 1..Len(events) }

Offered == { outcome.slots[i] : i \in 1..Len(outcome.slots) }

MinuteOfDay(hm) == hm[1] * HourMinutes + hm[2]

\* C1: when the gateway's list call succeeds, check_availability returns its
\* text, and a candidate slot [step, step+duration) is in it if and only if no
\* returned event satisfies step < event.end and step+duration > event.start.
C1_OverlapRule ==
    CheckReturned =>
        /\ outcome.kind = "text"
        /\ Offered = { StrfTime(s) : s \in { c \in Steps : \A e \in Returned : ~Overlaps(c, e) } }

\* C2: with 0 < duration <= window length and no event of the calendar
\* overlapping the window, exactly floor((end - start - duration) / 30) + 1
\* slots are returned: start, start + 30, ... in this order.
C2_FreeWindowCount ==
    ( /\ CheckReturned
      /\ 0 < req.duration
      /\ req.duration <= WindowEnd - WindowStart
      /\ \A e \in calendar : ~(e.end > WindowStart /\ e.start < WindowEnd) )
    => /\ outcome.kind = "text"
       /\ outcome.count = ((WindowEnd - WindowStart - req.duration) \div 30) + 1
       /\ Len(outcome.slots) = outcome.count
       /\ \A i \in 1..Len(outcome.slots) :
              MinuteOfDay(outcome.slots[i]) = req.start_time + (i - 1) * 30

\* The spec's example: 09:00-11:00, 60 minutes, no events: 09:00, 09:30, 10:00.
C2_Witness ==
    /\ CheckReturned
    /\ calendar = {}
    /\ req.start_time = 540 /\ req.end_time = 660 /\ req.duration = 60
    /\ outcome.slots = << <<9, 0>>, <<9, 30>>, <<10, 0>> >>

\* A single-conflict scenario: the one event of the calendar is returned and
\* covers exactly [step, step+duration) of a candidate step.
SingleExactCover ==
    /\ CheckReturned
    /\ Cardinality(calendar) = 1
    /\ Len(events) = 1
    /\ events[1].start \in Steps
    /\ events[1].end = events[1].start + req.duration

\* C3 as stated: in a single-conflict scenario whose call returns its text,
\* the result lacks exactly the covered step and no other candidate.
C3_RemovesOnlyThatStep ==
    (SingleExactCover /\ outcome.kind = "text")
    => Offered = { StrfTime(s) : s \in Steps \ {events[1].start} }

\* C3, amended: in a single-conflict scenario the call raises when the
\* event's timestamp carries an offset, and otherwise returns the candidates
\* less exactly those that overlap the covered interval: the covered step and
\* every candidate less than duration away from it (that one step alone when
\* duration <= 30 minutes).
C3_RemovesOverlappingSteps ==
    SingleExactCover =>
        IF events[1].kind = "naive"
        THEN /\ outcome.kind = "text"
             /\ Offered = { StrfTime(s) : s \in { c \in Steps :
                               ~(c < events[1].start + req.duration
                                 /\ c + req.duration > events[1].start) } }
             /\ req.duration <= SlotStep
                    => Offered = { StrfTime(s) : s \in Steps \ {events[1].start} }
        ELSE outcome.kind = "error"

\* 09:00-11:00, 60 minutes, one event 09:30-10:30: all three candidates go.
C3_Witness ==
    /\ SingleExactCover
    /\ events[1].kind = "naive"
    /\ req.start_time = 540 /\ req.end_time = 660 /\ req.duration = 60
    /\ events[1].start = At(req.date, 570)
    /\ outcome.kind = "text"
    /\ outcome.slots = <<>>

\* C4: every offered slot starts at window.start + k * 30 minutes (k >= 0),
\* ends no later than window.end, and the slots are listed in strictly
\* increasing order.
C4_SlotsFitInOrder ==
    (req.tool = "check_availability" /\ outcome.kind = "text")
    => /\ \A i \in 1..Len(outcome.slots) :
              /\ MinuteOfDay(outcome.slots[i]) >= req.start_time
              /\ (MinuteOfDay(outcome.slots[i]) - req.start_time) % 30 = 0
              /\ MinuteOfDay(outcome.slots[i]) + req.duration <= req.end_time
       /\ \A i, j \in 1..Len(outcome.slots) :
              i < j => MinuteOfDay(outcome.slots[i]) < MinuteOfDay(outcome.slots[j])

\* Slots after a conflict: 09:00-11:00, 30 minutes, one event 09:00-09:30.
C4_Witness ==
    /\ req.tool = "check_availability"
    /\ outcome.kind = "text"
    /\ Len(events) = 1
    /\ req.start_time = 540 /\ req.end_time = 660 /\ req.duration = 30
    /\ outcome.slots = << <<9, 30>>, <<10, 0>>, <<10, 30>> >>

\* ======================================================================
\* Properties of find_next_available
\* ======================================================================
Fna == req.tool = "find_next_available"

FnaReturned == Fna /\ pc = "idle" /\ outcome.kind = "text"

\* The calendar date of now + 1 day, and the date days_ahead days after it.
StartDate == (req.now \div DayMinutes) + 1
LastDate == StartDate + req.days_ahead

IsWeekend(date) == date % 7 \in {5, 6}

QueryDate(i) == glog[i].timeMin \div DayMinutes
QueryHour(i) == (glog[i].timeMin % DayMinutes) \div HourMinutes
Queried(i) == <<QueryDate(i), QueryHour(i)>>

Earlier(a, b) == a[1] < b[1] \/ (a[1] = b[1] /\ a[2] < b[2])

\* The (date, hour) candidates of the request.
Candidates ==
    { c \in (StartDate..LastDate) \X (OpenHour..(HourLimit(req.duration) - 1)) :
          IsBusinessDay(c[1]) }

\* C5: no gateway query is for a Saturday or Sunday, and no returned slot is
\* dated on one.
C5_NoWeekend ==
    Fna => /\ \A i \in 1..Len(glog) : ~IsWeekend(QueryDate(i))
           /\ outcome.found => ~IsWeekend(outcome.date) /\ outcome.weekday \notin {5, 6}

\* Asked on a Friday: Saturday and Sunday are passed over, Monday is returned.
C5_Witness ==
    /\ FnaReturned
    /\ req.now \div DayMinutes = 4
    /\ outcome.found
    /\ outcome.date = 7

\* C6: the queries go through the candidates in ascending (date, hour) order
\* without skipping one; every query before the last returned events; a query
\* that returns no events ends the search with that candidate as the result;
\* and the "not found" text is returned exactly when every candidate was
\* queried and returned events (or there is no candidate).
C6_FirstFree ==
    Fna =>
        /\ \A i, j \in 1..Len(glog) : i < j => Earlier(Queried(i), Queried(j))
        /\ \A i \in 1..Len(glog) :
               /\ Queried(i) \in Candidates
               /\ \A c \in Candidates :
                      Earlier(c, Queried(i)) => \E j \in 1..(i - 1) : Queried(j) = c
        /\ \A i \in 1..(Len(glog) - 1) : ~glog[i].raised /\ glog[i].items > 0
        /\ \A i \in 1..Len(glog) :
               (~glog[i].raised /\ glog[i].items = 0)
               => /\ i = Len(glog)
                  /\ pc = "idle"
                  /\ outcome.kind = "text" /\ outcome.found
                  /\ outcome.date = QueryDate(i)
                  /\ outcome.time = <<QueryHour(i), 0>>
        /\ outcome.found
               => /\ Len(glog) > 0
                  /\ ~glog[Len(glog)].raised
                  /\ glog[Len(glog)].items = 0
        /\ FnaReturned
               => (~outcome.found
                      <=> /\ { Queried(i) : i \in 1..Len(glog) } = Candidates
                          /\ \A i \in 1..Len(glog) : ~glog[i].raised /\ glog[i].items > 0)

\* The second candidate is returned after the first one was found busy.
C6_Witness ==
    /\ FnaReturned
    /\ outcome.found
    /\ Len(glog) >= 2
    /\ glog[1].items > 0

CeilHours(duration) == (duration + (HourMinutes - 1)) \div HourMinutes

\* C7: every queried hour lies in 9 .. 17 - ceil(duration / 60), and a search
\* that ends "not found" has queried each of these hours on every business
\* day of its range.
C7_HourRange ==
    Fna =>
        /\ \A i \in 1..Len(glog) :
               QueryHour(i) \in OpenHour..(CloseHour - CeilHours(req.duration))
        /\ (FnaReturned /\ ~outcome.found)
               => \A d \in StartDate..LastDate :
                      ~IsWeekend(d)
                      => { QueryHour(i) : i \in { k \in 1..Len(glog) : QueryDate(k) = d } }
                            = OpenHour..(CloseHour - CeilHours(req.duration))

\* now + 1 day falls after closing time.
PastBusinessHours == (req.now + DayMinutes) % DayMinutes >= CloseHour * HourMinutes

\* C8 as stated: days_ahead = 0 and a start past all business hours give
\* "not found".
C8_NotFoundAfterHours ==
    (FnaReturned /\ req.days_ahead = 0 /\ PastBusinessHours) => ~outcome.found

\* C8, amended: with days_ahead = 0 and a start past business hours the
\* search still examines every candidate hour of the start's calendar date
\* and no other date; it returns "not found" exactly when that date is a
\* Saturday or Sunday or each of its candidate hours has an event (or the
\* duration leaves no candidate hour), and otherwise a slot on that date.
C8_ScansStartDate ==
    (FnaReturned /\ req.days_ahead = 0 /\ PastBusinessHours)
    => /\ \A i \in 1..Len(glog) : QueryDate(i) = StartDate
       /\ outcome.found => outcome.date = StartDate
       /\ ~outcome.found
             <=> \/ IsWeekend(StartDate)
                 \/ \A h \in OpenHour..(HourLimit(req.duration) - 1) :
                        \E e \in calendar :
                            /\ e.end > At(StartDate, h * HourMinutes)
                            /\ e.start < At(StartDate, h * HourMinutes) + req.duration

\* Asked on Thursday at 18:00 with days_ahead = 0: Friday 09:00 is returned.
C8_Witness ==
    /\ FnaReturned
    /\ req.days_ahead = 0
    /\ PastBusinessHours
    /\ outcome.found
    /\ outcome.date = StartDate
    /\ outcome.time = <<9, 0>>

\* C9: every date queried or returned lies between the calendar date of
\* now + 1 day and days_ahead days after it, so never on today or before; the
\* scan is at one of these dates, or one past the last when it is over.
C9_DateRange ==
    Fna => /\ \A i \in 1..Len(glog) : QueryDate(i) \in StartDate..LastDate
           /\ outcome.found
                 => /\ outcome.date \in StartDate..LastDate
                    /\ outcome.date > req.now \div DayMinutes
           /\ current_date \in StartDate..(LastDate + 1)
           /\ (FnaReturned /\ ~outcome.found) => current_date = LastDate + 1

\* A slot on the last date of the range, days_ahead = 2 days after the start.
C9_Witness ==
    /\ FnaReturned
    /\ req.days_ahead = 2
    /\ outcome.found
    /\ outcome.date = LastDate

\* C10: a list call that raised is the last call of the search: the request
\* ended in an error with no slot and no "not found" text, nothing was queried
\* after it, and the same range was not asked for again.
C10_GatewayFailureFatal ==
    Fna => \A i \in 1..Len(glog) :
               glog[i].raised
               => /\ i = Len(glog)
                  /\ pc = "idle"
                  /\ outcome.kind = "error"
                  /\ ~outcome.found
                  /\ \A j \in 1..Len(glog) : j # i => glog[j].timeMin # glog[i].timeMin

\* The third list call of a search raises.
C10_Witness ==
    /\ Fna
    /\ Len(glog) = 3
    /\ glog[3].raised
    /\ outcome.kind = "error"

\* C16: a returned slot starts at 09:00 or later and ends, duration minutes
\* on, no later than 17:00 of its date; a duration of 480 minutes or more
\* has no candidate, so no list call is made and the answer is "not found".
C16_InsideBusinessHours ==
    Fna => /\ outcome.found
                 => /\ outcome.time[1] >= 9
                    /\ MinuteOfDay(outcome.time) + req.duration <= 17 * 60
           /\ \A i \in 1..Len(glog) :
                  /\ QueryHour(i) >= 9
                  /\ glog[i].timeMax <= At(QueryDate(i), 17 * 60)
           /\ req.duration >= 480
                 => /\ glog = <<>>
                    /\ ~outcome.found
                    /\ pc = "idle" => outcome.kind = "text"

\* A 119-minute slot at 10:00, the 09:00 candidate being busy.
C16_Witness ==
    /\ FnaReturned
    /\ req.duration = 119
    /\ outcome.found
    /\ outcome.time = <<10, 0>>
    /\ Len(glog) = 2

\* ======================================================================
\* Properties of the handlers on a calendar that changes
\* ======================================================================
ReadOnlyTools == {"check_availability", "find_next_available"}

\* C11: a step of check_availability or find_next_available leaves the
\* calendar as it is and has issued list calls only; and what it was given is
\* what the calendar holds at that moment, not what an earlier request saw:
\* every list call that returned has as many items as the calendar has events
\* in its range, and the events check_availability works on are those events.
C11_ReadOnly ==
    [][ req'.tool \in ReadOnlyTools
        => /\ calendar' = calendar
           /\ \A i \in 1..Len(glog') :
                  /\ glog'[i].op = "list"
                  /\ ~glog'[i].raised
                        => glog'[i].items
                             = Cardinality({ e \in calendar' :
                                   e.end > glog'[i].timeMin /\ e.start < glog'[i].timeMax })
           /\ (req'.tool = "check_availability" /\ Len(glog') = 1 /\ ~glog'[1].raised)
                 => { events'[i] : i \in 1..Len(events') }
                      = { e \in calendar' : e.end > glog'[1].timeMin /\ e.start < glog'[1].timeMax }
      ]_vars

\* check_availability is handed an event that book_appointment inserted.
C11_Witness ==
    /\ req.tool = "check_availability"
    /\ Len(glog) = 1
    /\ ~glog[1].raised
    /\ \E i \in 1..Len(events) : events[i].id[3] = "booked"

\* C12: a request of check_availability, book_appointment,
\* cancel_appointment, reschedule_appointment or get_appointments with a
\* required parameter missing or malformed ends in an error with no gateway
\* call issued.
C12_ValidationFirst ==
    ( /\ req.tool \in {"check_availability", "book_appointment", "cancel_appointment",
                        "reschedule_appointment", "get_appointments"}
      /\ req.fault # "none" )
    => /\ outcome.kind = "error"
       /\ glog = <<>>

\* C14: in cancel_appointment and reschedule_appointment a delete or update
\* call is the second call, after a get call for the same id that returned;
\* a get call that raised is the only call, the request ends in an error and
\* the calendar is unchanged; a request that returns its text made exactly
\* the get and then one delete (cancel) or one update (reschedule) for the
\* requested id; an error never changes the calendar.
C14_GetBeforeMutation ==
    [][ req'.tool \in {"cancel_appointment", "reschedule_appointment"}
        => /\ \A i \in 1..Len(glog') :
                  glog'[i].op \in {"delete", "update"}
                  => /\ i = 2
                     /\ glog'[1].op = "get"
                     /\ ~glog'[1].raised
                     /\ glog'[1].id = req'.appointment_id
                     /\ glog'[i].id = req'.appointment_id
           /\ (Len(glog') >= 1 /\ glog'[1].raised)
                 => /\ Len(glog') = 1
                    /\ glog'[1].op = "get"
                    /\ outcome'.kind = "error"
                    /\ calendar' = calendar
           /\ outcome'.kind = "error" => calendar' = calendar
           /\ outcome'.kind = "text"
                 => /\ Len(glog') = 2
                    /\ glog'[1].op = "get"
                    /\ glog'[2].op = IF req'.tool = "cancel_appointment"
                                      THEN "delete" ELSE "update"
                    /\ ~glog'[2].raised
                    /\ req'.appointment_id \in { e.id : e \in calendar }
                    /\ req'.tool = "cancel_appointment"
                          => calendar' = { e \in calendar : e.id # req'.appointment_id }
                    /\ req'.tool = "reschedule_appointment"
                          => /\ { e.id : e \in calendar' } = { e.id : e \in calendar }
                             /\ { e \in calendar' : e.id # req'.appointment_id }
                                  = { e \in calendar : e.id # req'.appointment_id }
      ]_vars

\* An unknown id: the get call raises and nothing else is called.
C14_Witness ==
    /\ req.tool = "cancel_appointment"
    /\ req.appointment_id \notin Ids(calendar)
    /\ calendar # {}
    /\ Len(glog) = 1
    /\ glog[1].op = "get"
    /\ outcome.kind = "error"

\* ======================================================================
\* Properties of the endpoints
\* ======================================================================
IsNamed(c) == c.name # ""

\* The tool calls taken so far that have a function name.
NamedCalls == SelectSeq(ctx.calls, IsNamed)

LastCall == ctx.calls[Len(ctx.calls)]

\* C13: in a tool_calls request to call_tool or elevenlabs_webhook the
\* results list holds, in request order, one entry for each tool call taken
\* that has a function name, each with either "result" or "error"; a handler
\* that fails does not end the loop: the response is returned only when
\* every tool call of the request has been taken, and a tool call of a known
\* tool taken with the service at hand has run its handler, whose outcome
\* its entry carries, whatever the calls before it did.
C13_BatchIsolation ==
    (ctx.phase \in {"batch", "done"} /\ ctx.request.has_tool_calls /\ ctx.service)
    => /\ Len(ctx.results) = Len(NamedCalls)
       /\ \A j \in 1..Len(ctx.results) :
              /\ ctx.results[j].tool_call_id = NamedCalls[j].id
              /\ DOMAIN ctx.results[j] \in {{"tool_call_id", "result"},
                                            {"tool_call_id", "error"}}
       /\ \A j \in 1..Len(ctx.calls) : ctx.calls[j].id = j
       /\ ctx.phase = "done"
             => /\ ctx.response = "results"
                /\ Len(ctx.calls) = ctx.request.n
       /\ (Len(ctx.calls) >= 1 /\ LastCall.name \in ToolNames /\ LastCall.service)
             => /\ req.tool = LastCall.name
                /\ outcome.kind \in {"text", "error"}
                /\ DOMAIN ctx.results[Len(ctx.results)]
                      = IF outcome.kind = "error" THEN {"tool_call_id", "error"}
                                                  ELSE {"tool_call_id", "result"}

\* cancel_appointment of an unknown id failed, book_appointment after it
\* inserted its event.
C13_Witness ==
    /\ ctx.phase = "done"
    /\ ctx.response = "results"
    /\ Len(ctx.calls) = 2
    /\ ctx.calls[1].name = "cancel_appointment"
    /\ ctx.calls[2].name = "book_appointment"
    /\ Len(ctx.results) = 2
    /\ "error" \in DOMAIN ctx.results[1]
    /\ "result" \in DOMAIN ctx.results[2]
    /\ \E e \in calendar : e.id[3] = "booked"

\* C15: a JSON-RPC request to POST / with method "tools/call" that names one
\* of the six tools, the service at hand, is not turned down as an unknown
\* tool: the handler of the named tool has run, and when it returned its
\* text the response carries a result.
C15_RootToolsCall ==
    ( /\ ctx.endpoint = "root"
      /\ ctx.phase = "done"
      /\ ctx.request.jsonrpc
      /\ ctx.request.method = "tools/call"
      /\ ctx.request.name \in ToolNames
      /\ ctx.service )
    => /\ ctx.detail # "Unknown tool"
       /\ req.tool = ctx.request.name
       /\ outcome.kind = "text" => ctx.response = "result"
====
